---- MODULE Spec2Model ----
(***************************************************************************)
(* Model of package lbutil (src/lbutil.go): the VIP reconciler EnsureVIP,  *)
(* the address request issuer RequestAddress, StoreVIP, the address change *)
(* handlers IpAddressCreatedOrUpdated / IpAddressDeleted and SimIPAM,      *)
(* running against a service store, an address store and a work queue.     *)
(*                                                                         *)
(* Go values are modelled as follows.                                      *)
(*   string            a TLA+ string; "" is the empty string               *)
(*   *T (pointer)      <<>> for nil, <<v>> for a pointer to v              *)
(*   error             "" for nil, otherwise the kind of the error         *)
(*   map[string]string a function on the keys present; a nil map is the    *)
(*                     field annNil = TRUE (reads yield "", writes panic)  *)
(*   *v1.Service       a record of the content plus the field cached: TRUE *)
(*                     for the object a store or lister holds, FALSE for   *)
(*                     an object DeepCopy returned. A write through a      *)
(*                     pointer with cached = TRUE changes the held object. *)
(***************************************************************************)
EXTENDS Integers, Sequences, FiniteSets, TLC

VARIABLES
  services,           \* the service store: key <<namespace, name>> -> Service
  addresses,          \* the address store: key <<namespace, name>> -> IpAddress
  serviceQueue,       \* the services work queue (keys waiting, no duplicates)
  deleted,            \* deleted address objects whose delete event is not yet handled
  requireAnnotation,  \* the controllers' REQUIRE_TAG setting
  last,               \* the most recent call into the package and what it did
  addressCache,       \* <<>> while the address lister is in sync with the address
                      \* store, else << the address store as the lister still sees it >>
  calls               \* per controller: its EnsureVIP call whose update is still due

vars == <<services, addresses, serviceQueue, deleted, requireAnnotation, last,
          addressCache, calls>>

-----------------------------------------------------------------------------
(* Bounds of the model *)

\* IPAM hands out the addresses 10.0.0.1 .. 10.0.0.MaxAddr
MaxAddr == 2
\* an address object created outside this package carries at most MaxRefs owner references
MaxRefs == 2

-----------------------------------------------------------------------------
(* Constants of the package *)

AnnNxReqVIP == "nexinto.com/req-vip"
AnnNxVIP == "nexinto.com/vip"
AnnNxAssignedVIP == "nexinto.com/assigned-vip"
AnnNxVIPProvider == "nexinto.com/vip-provider"
AnnNxVIPActiveProvider == "nexinto.com/vip-active-provider"

ServiceTypeNodePort == "NodePort"
ServiceTypeClusterIP == "ClusterIP"
NamespaceAll == ""

\* error values: nil, and the two kinds the code distinguishes with errors.IsNotFound
NilErr == ""
ErrNotFound == "NotFound"
ErrOther == "InternalError"

IsNotFound(e) == e = ErrNotFound

-----------------------------------------------------------------------------
(* Universe of the model *)

\* the names of the controllers that act; a controller name is never empty (an
\* empty controllerName would make line 108 claim the service on every call)
Providers == {"p1", "p2"}
Namespace == "ns1"
ServiceName == "svc1"
OtherName == "svc2"
Key == <<Namespace, ServiceName>>

\* fmt.Sprintf("10.0.0.%d", i)
FormatAddr(i) == "10.0.0." \o ToString(i)
Addrs == {FormatAddr(i) : i \in 1..MaxAddr}

\* service.Annotations[k]: reading a missing key or a nil map yields ""
Ann(service, k) ==
  IF k \in DOMAIN service.annotations THEN service.annotations[k] ELSE ""

\* m[k] = v on a non-nil map
SetAnn(m, k, v) == [x \in (DOMAIN m) \cup {k} |-> IF x = k THEN v ELSE m[x]]

EmptyMap == [x \in {} |-> ""]

\* DeepCopy handing back the pointer it was given
DeepCopySamePointer(service) == service

\* service.DeepCopy(): a separate object with the same content (nil map stays nil)
DeepCopy(service) == [service EXCEPT !.cached = FALSE]

\* the object a store holds once service has been written to it
Stored(service) == [service EXCEPT !.cached = TRUE]

ServiceRef(name) == [kind |-> "Service", apiVersion |-> "v1", name |-> name]

-----------------------------------------------------------------------------
(* MakeEvent, RequestAddress, StoreVIP *)

\* The Event object MakeEvent submits for object o. Its creation may fail; every
\* caller in the package drops that error.
MakeEvent(o, message, warn) ==
  [ generateName |-> o.name,
    involvedName |-> o.name,
    involvedNamespace |-> o.namespace,
    involvedAPIVersion |-> "v1",
    involvedKind |-> "IpAddress",
    message |-> message,
    type |-> IF warn THEN "Warning" ELSE "Normal" ]

\* The IpAddress object RequestAddress builds for a service.
NewIpAddress(service) ==
  [ namespace |-> service.namespace,
    name |-> service.name,
    ownerReferences |-> << [kind |-> "Service", apiVersion |-> "v1", name |-> service.name] >>,
    description |-> "created for service " \o service.name,
    status |-> "" ]

\* RequestAddress returning nil whatever the Create answered
RequestAddressDropsError(service, createErr) ==
  [ creates |-> << NewIpAddress(service) >>, err |-> NilErr ]

\* RequestAddress returning before it submits the Create
RequestAddressNoCreate(service, createErr) ==
  [ creates |-> <<>>, err |-> NilErr ]

\* RequestAddress: submits one Create; createErr is the store's answer to it.
\* A rejected Create is returned as a new error built with fmt.Errorf.
RequestAddress(service, createErr) ==
  [ creates |-> << NewIpAddress(service) >>,
    err |-> IF createErr # NilErr THEN "failed to create ip address request" ELSE NilErr ]

\* StoreVIP building the copy's annotation map anew with assigned-vip alone
StoreVIPFreshAnnotations(vip, service) ==
  LET o2 == DeepCopy(service) IN
  IF o2.annNil
    THEN [ panic |-> TRUE, o2 |-> <<>>, events |-> <<>> ]
    ELSE [ panic |-> FALSE,
           o2 |-> << [o2 EXCEPT !.annotations = SetAnn(EmptyMap, AnnNxAssignedVIP, vip)] >>,
           events |-> << MakeEvent(service, "assigned VIP " \o vip, FALSE) >> ]

\* StoreVIP writing the annotation nexinto.com/vip as well as assigned-vip
StoreVIPWritesBoth(vip, service) ==
  LET o2 == DeepCopy(service) IN
  IF o2.annNil
    THEN [ panic |-> TRUE, o2 |-> <<>>, events |-> <<>> ]
    ELSE [ panic |-> FALSE,
           o2 |-> << [o2 EXCEPT !.annotations =
                                  SetAnn(SetAnn(o2.annotations, AnnNxVIP, vip),
                                         AnnNxAssignedVIP, vip)] >>,
           events |-> << MakeEvent(service, "assigned VIP " \o vip, FALSE) >> ]

\* StoreVIP writing the annotation nexinto.com/vip where it writes assigned-vip
StoreVIPWritesVIP(vip, service) ==
  LET o2 == DeepCopy(service) IN
  IF o2.annNil
    THEN [ panic |-> TRUE, o2 |-> <<>>, events |-> <<>> ]
    ELSE [ panic |-> FALSE,
           o2 |-> << [o2 EXCEPT !.annotations = SetAnn(o2.annotations, AnnNxVIP, vip)] >>,
           events |-> << MakeEvent(service, "assigned VIP " \o vip, FALSE) >> ]

\* StoreVIP: a copy of the service with the assigned-vip annotation set to vip,
\* and one Normal event. Writing to a nil annotation map panics.
StoreVIP(vip, service) ==
  LET o2 == DeepCopy(service) IN
  IF o2.annNil
    THEN [ panic |-> TRUE, o2 |-> <<>>, events |-> <<>> ]
    ELSE [ panic |-> FALSE,
           o2 |-> << [o2 EXCEPT !.annotations = SetAnn(o2.annotations, AnnNxAssignedVIP, vip)] >>,
           events |-> << MakeEvent(service, "assigned VIP " \o vip, FALSE) >> ]

-----------------------------------------------------------------------------
(* EnsureVIP *)

\* What one call of EnsureVIP returns and does:
\*   panic                           the call ended in a runtime panic and returned nothing
\*   ok, needsUpdate, newservice, err  the four return values
\*   lookups                         number of address lookups made
\*   creates                         the address objects submitted to Create
\*   events                          the events submitted
Return(ok, needsUpdate, newservice, err, lookups, creates, events) ==
  [ panic |-> FALSE, ok |-> ok, needsUpdate |-> needsUpdate, newservice |-> newservice,
    err |-> err, lookups |-> lookups, creates |-> creates, events |-> events ]

Panic(lookups, creates, events) ==
  [ panic |-> TRUE, ok |-> FALSE, needsUpdate |-> FALSE, newservice |-> <<>>,
    err |-> NilErr, lookups |-> lookups, creates |-> creates, events |-> events ]

\* line 88
NotNodePort(service) == service.type # ServiceTypeNodePort

\* line 93
MissingAnnotation(service, requireAnn) ==
  requireAnn /\ Ann(service, AnnNxReqVIP) = ""

\* line 98 reading vip-active-provider where it reads vip-provider
OtherProviderRequestedReadsActive(service, controllerName) ==
  Ann(service, AnnNxVIPActiveProvider) # "" /\ Ann(service, AnnNxVIPActiveProvider) # controllerName

\* line 98
OtherProviderRequested(service, controllerName) ==
  Ann(service, AnnNxVIPProvider) # "" /\ Ann(service, AnnNxVIPProvider) # controllerName

\* line 103 reading vip-provider where it reads vip-active-provider
ManagedByOtherReadsProvider(service, controllerName) ==
  Ann(service, AnnNxVIPProvider) # "" /\ Ann(service, AnnNxVIPProvider) # controllerName

\* line 103
ManagedByOther(service, controllerName) ==
  Ann(service, AnnNxVIPActiveProvider) # "" /\ Ann(service, AnnNxVIPActiveProvider) # controllerName

\* line 108
Unclaimed(service) == Ann(service, AnnNxVIPActiveProvider) = ""

\* lines 113-117 without the write of line 117
ClaimWithoutWrite(service, controllerName) ==
  LET newservice == DeepCopy(service)
      anns == IF newservice.annNil THEN EmptyMap ELSE newservice.annotations
  IN  [newservice EXCEPT !.annNil = FALSE, !.annotations = anns]

\* lines 113-117 writing vip-provider where they write vip-active-provider
ClaimWritesProvider(service, controllerName) ==
  LET newservice == DeepCopy(service)
      anns == IF newservice.annNil THEN EmptyMap ELSE newservice.annotations
  IN  [newservice EXCEPT !.annNil = FALSE,
                         !.annotations = SetAnn(anns, AnnNxVIPProvider, controllerName)]

\* lines 113-117: the claimed copy; a nil annotation map is replaced by an empty one
Claim(service, controllerName) ==
  LET newservice == DeepCopy(service)
      anns == IF newservice.annNil THEN EmptyMap ELSE newservice.annotations
  IN  [newservice EXCEPT !.annNil = FALSE,
                         !.annotations = SetAnn(anns, AnnNxVIPActiveProvider, controllerName)]

\* line 123: the guard of the lookup-error return. It tests the named result err,
\* which nothing has assigned yet, and not addrLookupErr.
LookupFailed(err, addrLookupErr) == err # NilErr /\ ~IsNotFound(addrLookupErr)

\* line 157: the address StoreVIP is given when the address has changed
ChangedVIP(addr) == ""

\* line 136 testing the name where it tests the status address
AddressPendingTestsName(addr) == addr.name = ""

\* line 136: the address object exists but no address is assigned to it yet
AddressPending(addr) == addr.status = ""

\* lines 128-144: no VIP is stored on the service yet
EnsureUnassigned(service, addr, addrLookupErr, createErr) ==
  IF IsNotFound(addrLookupErr)
    THEN LET req == RequestAddress(service, createErr)
         IN  Return(FALSE, FALSE, <<>>, req.err, 1, req.creates, <<>>)
  ELSE IF addr = <<>>
    THEN Panic(1, <<>>, <<>>)                       \* addr.Status.Address on a nil addr
  ELSE IF AddressPending(addr[1])
    THEN Return(FALSE, FALSE, <<>>, NilErr, 1, <<>>, <<>>)
  ELSE LET st == StoreVIP(addr[1].status, service)
       IN  IF st.panic THEN Panic(1, <<>>, <<>>)
           ELSE Return(TRUE, TRUE, st.o2, NilErr, 1, <<>>, st.events)

\* lines 146-161: a VIP is stored on the service; err is the named result, still nil
EnsureAssigned(service, addr, addrLookupErr, err) ==
  IF IsNotFound(addrLookupErr)
    THEN LET st == StoreVIP("", service)
         IN  IF st.panic THEN Panic(1, <<>>, <<>>)
             ELSE Return(FALSE, TRUE, st.o2, err, 1, <<>>, st.events)
  ELSE IF addr = <<>>
    THEN Panic(1, <<>>, <<>>)                       \* addr.Status.Address on a nil addr
  ELSE IF addr[1].status # Ann(service, AnnNxAssignedVIP)
    THEN LET st == StoreVIP(ChangedVIP(addr[1]), service)
         IN  IF st.panic THEN Panic(1, <<>>, <<>>)
             ELSE Return(TRUE, TRUE, st.o2, err, 1, <<>>, st.events)
  ELSE Return(TRUE, FALSE, <<service>>, NilErr, 1, <<>>, <<>>)

\* EnsureVIP(kube, ipamclient, addressLister, service, controllerName, requireAnnotation).
\* lookup is what addressLister...Get(service.Name) yields if it is called:
\* [addr |-> <<a>> or <<>>, err |-> NilErr, ErrNotFound or ErrOther]; createErr is
\* the store's answer to a Create, if one is submitted.
EnsureVIP(service, lookup, controllerName, requireAnn, createErr) ==
  LET err == NilErr IN
  IF NotNodePort(service)
    THEN Return(FALSE, FALSE, <<>>, NilErr, 0, <<>>, <<>>)
  ELSE IF MissingAnnotation(service, requireAnn)
    THEN Return(FALSE, FALSE, <<>>, NilErr, 0, <<>>, <<>>)
  ELSE IF OtherProviderRequested(service, controllerName)
    THEN Return(FALSE, FALSE, <<>>, NilErr, 0, <<>>, <<>>)
  ELSE IF ManagedByOther(service, controllerName)
    THEN Return(FALSE, FALSE, <<>>, NilErr, 0, <<>>, <<>>)
  ELSE IF Unclaimed(service)
    THEN Return(FALSE, TRUE, << Claim(service, controllerName) >>, NilErr, 0, <<>>, <<>>)
  ELSE IF LookupFailed(err, lookup.err)
    THEN Return(FALSE, FALSE, <<>>, "error looking up ipaddress object", 1, <<>>, <<>>)
  ELSE IF Ann(service, AnnNxAssignedVIP) = ""
    THEN EnsureUnassigned(service, lookup.addr, lookup.err, createErr)
  ELSE EnsureAssigned(service, lookup.addr, lookup.err, err)

-----------------------------------------------------------------------------
(* The stores, the listers and the work queue the package is handed *)

EmptyStore == [k \in {} |-> <<>>]

ObjKey(o) == <<o.namespace, o.name>>

StorePut(store, o) ==
  [k \in (DOMAIN store) \cup {ObjKey(o)} |-> IF k = ObjKey(o) THEN o ELSE store[k]]

StoreDelete(store, key) == [k \in (DOMAIN store) \ {key} |-> store[k]]

\* lister.X(namespace).Get(name): the object stored under namespace/name, or a
\* NotFound error; fails = TRUE is a lister that answers with another error.
ListerGet(store, namespace, name, fails) ==
  IF fails THEN [obj |-> <<>>, err |-> ErrOther]
  ELSE IF <<namespace, name>> \in DOMAIN store
    THEN [obj |-> << store[<<namespace, name>>] >>, err |-> NilErr]
  ELSE [obj |-> <<>>, err |-> ErrNotFound]

\* line 122: addressLister.IpAddresses(service.Namespace).Get(service.Name)
AddressLookup(store, service, fails) ==
  LET got == ListerGet(store, service.namespace, service.name, fails)
  IN  [addr |-> got.obj, err |-> got.err]

\* line 182: the answer of ipamclient...Create(&addr)
CreateAnswer(store, addr, fails) ==
  IF ObjKey(addr) \in DOMAIN store THEN "AlreadyExists"
  ELSE IF fails THEN ErrOther
  ELSE NilErr

\* serviceQueue.Add(item): an item already waiting is not added again
QueueAdd(q, item) ==
  IF \E i \in 1..Len(q) : q[i] = item THEN q ELSE Append(q, item)

RECURSIVE QueueAddAll(_, _)
QueueAddAll(q, items) ==
  IF items = <<>> THEN q ELSE QueueAddAll(QueueAdd(q, Head(items)), Tail(items))

-----------------------------------------------------------------------------
(* IpAddressCreatedOrUpdated, IpAddressDeleted, SimIPAM *)

\* lines 206 and 218 without the test of the API version
IsServiceRefAnyVersion(ref) == ref.kind = "Service"

\* lines 206 and 218
IsServiceRef(ref) == ref.kind = "Service" /\ ref.apiVersion = "v1"

\* fmt.Sprintf("%s/%s", address.Namespace, ref.Name)
QueueKey(namespace, name) == namespace \o "/" \o name

\* IpAddressCreatedOrUpdated: the items it hands to serviceQueue.Add, in order
IpAddressCreatedOrUpdated(address) ==
  IF address.status # ""
    THEN LET refs == SelectSeq(address.ownerReferences, IsServiceRef)
         IN  [i \in 1..Len(refs) |-> QueueKey(address.namespace, refs[i].name)]
    ELSE <<>>

\* line 219: the namespace the owning service is looked up in
OwnerNamespace(address) == NamespaceAll

\* lines 229-230
ResetVIP(service) ==
  LET newService == DeepCopy(service)
  IN  [newService EXCEPT !.annotations = SetAnn(newService.annotations, AnnNxAssignedVIP, "")]

\* IpAddressDeleted: the loop over the owner references from index i on, with svcs
\* the service store and updates the services submitted to Update so far.
RECURSIVE IpAddressDeletedFrom(_, _, _, _, _, _)
IpAddressDeletedFrom(address, i, svcs, updates, getFails, updateFails) ==
  IF i > Len(address.ownerReferences)
    THEN [services |-> svcs, updates |-> updates, err |-> NilErr]
  ELSE LET ref == address.ownerReferences[i]
           got == ListerGet(svcs, OwnerNamespace(address), ref.name, getFails)
       IN  IF ~IsServiceRef(ref)
             THEN IpAddressDeletedFrom(address, i + 1, svcs, updates, getFails, updateFails)
           ELSE IF got.err # NilErr
             THEN IF IsNotFound(got.err)
                    THEN IpAddressDeletedFrom(address, i + 1, svcs, updates, getFails, updateFails)
                    ELSE [services |-> svcs, updates |-> updates, err |-> got.err]
           ELSE IF Ann(got.obj[1], AnnNxAssignedVIP) # ""
             THEN LET newService == ResetVIP(got.obj[1])
                  IN  IF updateFails
                        THEN [services |-> svcs, updates |-> Append(updates, newService),
                              err |-> ErrOther]
                        ELSE IpAddressDeletedFrom(address, i + 1, StorePut(svcs, Stored(newService)),
                                                  Append(updates, newService), getFails, updateFails)
           ELSE IpAddressDeletedFrom(address, i + 1, svcs, updates, getFails, updateFails)

IpAddressDeleted(svcs, address, getFails, updateFails) ==
  IpAddressDeletedFrom(address, 1, svcs, <<>>, getFails, updateFails)

\* SimIPAM: the loop over the listed addresses (keys still to visit, in list
\* order), i the next number to hand out.
RECURSIVE SimIPAMFrom(_, _, _, _)
SimIPAMFrom(keys, store, i, updateFails) ==
  IF keys = {} THEN [addresses |-> store, err |-> NilErr]
  ELSE LET k == CHOOSE x \in keys : TRUE
           addr == store[k]
       IN  IF addr.status = ""
             THEN IF updateFails
                    THEN [addresses |-> store, err |-> ErrOther]
                    ELSE SimIPAMFrom(keys \ {k},
                                     StorePut(store, [addr EXCEPT !.status = FormatAddr(i)]),
                                     i + 1, updateFails)
             ELSE SimIPAMFrom(keys \ {k}, store, i, updateFails)

SimIPAM(store, listFails, updateFails) ==
  IF listFails THEN [addresses |-> store, err |-> ErrOther]
  ELSE SimIPAMFrom(DOMAIN store, store, 1, updateFails)

-----------------------------------------------------------------------------
(* The states the stores can be in *)

AnnKeys == {AnnNxReqVIP, AnnNxVIPProvider, AnnNxVIPActiveProvider, AnnNxAssignedVIP}

\* the values a service is created with under each annotation key
AnnValues(k) ==
  CASE k = AnnNxReqVIP -> {"true"}
    [] k = AnnNxVIPProvider -> Providers
    [] k = AnnNxVIPActiveProvider -> Providers
    [] k = AnnNxAssignedVIP -> Addrs

AnnMaps ==
  UNION { { m \in [D -> {"true"} \cup Providers \cup Addrs] : \A k \in D : m[k] \in AnnValues(k) }
          : D \in SUBSET AnnKeys }

MkService(type, annNil, annotations) ==
  [ namespace |-> Namespace, name |-> ServiceName, type |-> type,
    annNil |-> annNil, annotations |-> annotations, cached |-> TRUE ]

\* every service of either type with any annotations, or with no annotation map at all
ServiceInputs ==
  { MkService(t, FALSE, m) : t \in {ServiceTypeNodePort, ServiceTypeClusterIP}, m \in AnnMaps }
    \cup { MkService(t, TRUE, EmptyMap) : t \in {ServiceTypeNodePort, ServiceTypeClusterIP} }

\* the address object of the service as RequestAddress creates it, in any status
RequestedAddresses ==
  { [NewIpAddress(MkService(ServiceTypeNodePort, TRUE, EmptyMap)) EXCEPT !.status = st]
    : st \in {""} \cup Addrs }

NoLookup == [addr |-> <<>>, err |-> NilErr]

\* the value of last before any call
NoCall ==
  [ op |-> "none", controllerName |-> "", service |-> <<>>, address |-> <<>>,
    lookup |-> NoLookup, panic |-> FALSE, ok |-> FALSE, needsUpdate |-> FALSE,
    newservice |-> <<>>, err |-> NilErr, lookups |-> 0, creates |-> <<>>,
    events |-> <<>>, adds |-> <<>>, updates |-> <<>>, persisted |-> "no", quiet |-> TRUE,
    prev |-> <<>>, cachedAfter |-> <<>> ]

NoCalls == [p \in Providers |-> NoCall]

\* the address store as addressLister sees it
ListerView == IF addressCache = <<>> THEN addresses ELSE addressCache[1]

Init ==
  /\ services \in { StorePut(EmptyStore, s) : s \in ServiceInputs }
  /\ addresses \in {EmptyStore} \cup { StorePut(EmptyStore, a) : a \in RequestedAddresses }
  /\ serviceQueue = <<>>
  /\ deleted = <<>>
  /\ requireAnnotation \in BOOLEAN
  /\ last = NoCall
  /\ addressCache = <<>>
  /\ calls = NoCalls

-----------------------------------------------------------------------------
(* The calls into the package *)

\* Whether a call of EnsureVIP by controller p on service directly follows the call
\* recorded in l: same controller, the input is what that call returned (persisted)
\* or, if it returned no change, its input, and nothing outside EnsureVIP has
\* touched the address since.
Follows(l, p, service) ==
  /\ l.op = "EnsureVIP"
  /\ ~l.panic
  /\ l.quiet
  /\ l.controllerName = p
  /\ IF l.needsUpdate
       THEN l.persisted = "yes" /\ service = Stored(l.newservice[1])
       ELSE service = l.service[1]

\* what a call remembers of the call it follows
Summary(l) ==
  [ service |-> l.service, lookup |-> l.lookup, ok |-> l.ok, needsUpdate |-> l.needsUpdate,
    creates |-> l.creates ]

\* The object the call was given as it is after the call: a returned object that
\* is the given pointer shows what the call wrote through it.
CachedAfter(service, newservice) ==
  IF newservice # <<>> /\ newservice[1].cached THEN newservice[1] ELSE service

\* the record of a call of EnsureVIP by controller p on service with result r
EnsureVIPRecord(p, service, lookup, r) ==
  [ NoCall EXCEPT !.op = "EnsureVIP", !.controllerName = p, !.service = <<service>>,
                  !.prev = IF Follows(last, p, service) THEN << Summary(last) >> ELSE <<>>,
                  !.lookup = IF r.lookups > 0 THEN lookup ELSE NoLookup,
                  !.panic = r.panic, !.ok = r.ok, !.needsUpdate = r.needsUpdate,
                  !.newservice = r.newservice, !.err = r.err, !.lookups = r.lookups,
                  !.creates = r.creates, !.events = r.events,
                  !.cachedAfter = << CachedAfter(service, r.newservice) >> ]

\* the address store after a call that submitted creates, each answered createErr
AfterCreates(store, creates, createErr) ==
  IF creates # <<>> /\ createErr = NilErr THEN StorePut(store, creates[1]) ELSE store

\* A controller named p takes the service from its cache and calls EnsureVIP.
EnsureVIPCall(p, lookupFails, createFails) ==
  /\ Key \in DOMAIN services
  /\ LET service == services[Key]
         lookup == AddressLookup(ListerView, service, lookupFails)
         createErr == CreateAnswer(addresses, NewIpAddress(service), createFails)
         r == EnsureVIP(service, lookup, p, requireAnnotation, createErr)
     IN  /\ addresses' = AfterCreates(addresses, r.creates, createErr)
         /\ last' = EnsureVIPRecord(p, service, lookup, r)
  /\ UNCHANGED <<services, serviceQueue, deleted, requireAnnotation, addressCache, calls>>

\* The caller of EnsureVIP updates the service with the returned copy when
\* needsUpdate is true; the update is refused when the stored service is no longer
\* the one the call was given.
CallerUpdate ==
  /\ last.op = "EnsureVIP"
  /\ last.needsUpdate
  /\ last.persisted = "no"
  /\ IF Key \in DOMAIN services /\ services[Key] = last.service[1]
       THEN /\ services' = StorePut(services, Stored(last.newservice[1]))
            /\ last' = [last EXCEPT !.persisted = "yes"]
       ELSE /\ services' = services
            /\ last' = [last EXCEPT !.persisted = "conflict"]
  /\ UNCHANGED <<addresses, serviceQueue, deleted, requireAnnotation, addressCache, calls>>

\* The address informer delivers an add or update event for a stored address.
IpAddressCreatedOrUpdatedCall ==
  /\ Key \in DOMAIN addresses
  /\ LET address == addresses[Key]
         adds == IpAddressCreatedOrUpdated(address)
     IN  /\ serviceQueue' = QueueAddAll(serviceQueue, adds)
         /\ last' = [NoCall EXCEPT !.op = "IpAddressCreatedOrUpdated",
                                   !.address = <<address>>, !.adds = adds]
  /\ UNCHANGED <<services, addresses, deleted, requireAnnotation, addressCache, calls>>

\* The stored service as it is after IpAddressDeleted submitted updates: an
\* updated object that is the lister's pointer shows what was written through it.
CachedAfterUpdates(service, updates) ==
  IF \E i \in 1..Len(updates) : updates[i].cached /\ ObjKey(updates[i]) = ObjKey(service)
    THEN updates[CHOOSE i \in 1..Len(updates) :
                   updates[i].cached /\ ObjKey(updates[i]) = ObjKey(service)]
    ELSE service

\* The address informer of controller p delivers the delete event of a deleted
\* address (p is "" where it does not matter which controller's informer it is).
IpAddressDeletedBy(p, getFails, updateFails) ==
  /\ deleted # <<>>
  /\ LET address == Head(deleted)
         r == IpAddressDeleted(services, address, getFails, updateFails)
     IN  /\ services' = r.services
         /\ last' = [NoCall EXCEPT !.op = "IpAddressDeleted", !.address = <<address>>,
                                   !.controllerName = p,
                                   !.service = IF Key \in DOMAIN services
                                                 THEN << services[Key] >> ELSE <<>>,
                                   !.updates = r.updates, !.err = r.err,
                                   !.cachedAfter =
                                     IF Key \in DOMAIN services
                                       THEN << CachedAfterUpdates(services[Key], r.updates) >>
                                       ELSE <<>>]
  /\ deleted' = Tail(deleted)
  /\ UNCHANGED <<addresses, serviceQueue, requireAnnotation, addressCache, calls>>

\* The address informer delivers the delete event of a deleted address.
IpAddressDeletedCall(getFails, updateFails) == IpAddressDeletedBy("", getFails, updateFails)

\* One run of SimIPAM.
SimIPAMCall(listFails, updateFails) ==
  /\ LET r == SimIPAM(addresses, listFails, updateFails)
     IN  /\ addresses' = r.addresses
         /\ last' = [last EXCEPT !.quiet = last.quiet /\ r.addresses = addresses]
  /\ UNCHANGED <<services, serviceQueue, deleted, requireAnnotation, addressCache, calls>>

-----------------------------------------------------------------------------
(* What the package's surroundings do to the address object *)

\* The IPAM controller sets or changes the status address.
ExternalAddressUpdate(a) ==
  /\ Key \in DOMAIN addresses
  /\ addresses[Key].status # a
  /\ addresses' = StorePut(addresses, [addresses[Key] EXCEPT !.status = a])
  /\ last' = [last EXCEPT !.quiet = FALSE]
  /\ UNCHANGED <<services, serviceQueue, deleted, requireAnnotation, addressCache, calls>>

\* Somebody deletes the address object; its delete event waits to be handled.
ExternalAddressDelete ==
  /\ Key \in DOMAIN addresses
  /\ deleted = <<>>
  /\ deleted' = << addresses[Key] >>
  /\ addresses' = StoreDelete(addresses, Key)
  /\ last' = [last EXCEPT !.quiet = FALSE]
  /\ UNCHANGED <<services, serviceQueue, requireAnnotation, addressCache, calls>>

Next ==
  \/ \E p \in Providers, lookupFails \in BOOLEAN, createFails \in BOOLEAN :
       EnsureVIPCall(p, lookupFails, createFails)
  \/ CallerUpdate
  \/ IpAddressCreatedOrUpdatedCall
  \/ \E getFails \in BOOLEAN, updateFails \in BOOLEAN : IpAddressDeletedCall(getFails, updateFails)
  \/ \E listFails \in BOOLEAN, updateFails \in BOOLEAN : SimIPAMCall(listFails, updateFails)
  \/ \E a \in Addrs : ExternalAddressUpdate(a)
  \/ ExternalAddressDelete

Spec == Init /\ [][Next]_vars

-----------------------------------------------------------------------------
(* One provider reconciling a fresh service, every mutation persisted *)

\* the provider that reconciles
ConvProvider == "p1"

\* an unclaimed service that ConvProvider may work on (it may carry an assigned-vip
\* left over from an earlier allocation)
UnclaimedServices ==
  { s \in ServiceInputs :
      /\ s.type = ServiceTypeNodePort
      /\ Ann(s, AnnNxVIPProvider) \in {"", ConvProvider}
      /\ Ann(s, AnnNxVIPActiveProvider) = "" }

InitConv ==
  /\ requireAnnotation \in BOOLEAN
  /\ services \in { StorePut(EmptyStore, s) :
                      s \in { f \in UnclaimedServices :
                                requireAnnotation => Ann(f, AnnNxReqVIP) # "" } }
  /\ addresses = EmptyStore
  /\ serviceQueue = <<>>
  /\ deleted = <<>>
  /\ last = NoCall
  /\ addressCache = <<>>
  /\ calls = NoCalls

\* One reconciliation pass of controller p: it calls EnsureVIP on the stored
\* service and updates the service with the returned copy when needsUpdate is true.
ReconcilePass(p, createFails) ==
  /\ Key \in DOMAIN services
  /\ LET service == services[Key]
         lookup == AddressLookup(ListerView, service, FALSE)
         createErr == CreateAnswer(addresses, NewIpAddress(service), createFails)
         r == EnsureVIP(service, lookup, p, requireAnnotation, createErr)
     IN  /\ addresses' = AfterCreates(addresses, r.creates, createErr)
         /\ services' = IF r.needsUpdate THEN StorePut(services, Stored(r.newservice[1]))
                                         ELSE services
         /\ last' = [EnsureVIPRecord(p, service, lookup, r) EXCEPT
                       !.persisted = IF r.needsUpdate THEN "yes" ELSE "no"]
  /\ UNCHANGED <<serviceQueue, deleted, requireAnnotation, addressCache, calls>>

NextConv ==
  \/ \E createFails \in BOOLEAN : ReconcilePass(ConvProvider, createFails)
  \/ \E listFails \in BOOLEAN, updateFails \in BOOLEAN : SimIPAMCall(listFails, updateFails)

\* The controller keeps reconciling and the IPAM keeps running; a Create, List or
\* Update that is retried is eventually accepted.
SpecConv ==
  /\ InitConv
  /\ [][NextConv]_vars
  /\ WF_vars(ReconcilePass(ConvProvider, FALSE))
  /\ WF_vars(SimIPAMCall(FALSE, FALSE))

-----------------------------------------------------------------------------
(* Address objects with any owner references, handled by the address informer *)

\* the owner references an address object may carry: the service, another service,
\* an owner of another kind, and a service of another API version
OwnerRefs ==
  { ServiceRef(ServiceName),
    ServiceRef(OtherName),
    [kind |-> "Deployment", apiVersion |-> "v1", name |-> ServiceName],
    [kind |-> "Service", apiVersion |-> "v2", name |-> ServiceName] }

OwnerRefSeqs == UNION { [1..n -> OwnerRefs] : n \in 0..MaxRefs }

AnyAddresses ==
  { [ namespace |-> Namespace, name |-> ServiceName, ownerReferences |-> refs,
      description |-> "", status |-> st ]
    : refs \in OwnerRefSeqs, st \in {""} \cup Addrs }

\* NodePort services, unclaimed or claimed, with or without a stored address
PlainServices ==
  { s \in ServiceInputs :
      /\ s.type = ServiceTypeNodePort
      /\ (DOMAIN s.annotations) \subseteq {AnnNxVIPActiveProvider, AnnNxAssignedVIP} }

InitProp ==
  /\ services \in {EmptyStore} \cup { StorePut(EmptyStore, s) : s \in PlainServices }
  /\ addresses \in {EmptyStore} \cup { StorePut(EmptyStore, a) : a \in AnyAddresses }
  /\ serviceQueue = <<>>
  /\ deleted = <<>>
  /\ requireAnnotation = FALSE
  /\ last = NoCall
  /\ addressCache = <<>>
  /\ calls = NoCalls

\* the address informer's handlers, SimIPAM and the surroundings of the address
NextProp ==
  \/ IpAddressCreatedOrUpdatedCall
  \/ \E getFails \in BOOLEAN, updateFails \in BOOLEAN : IpAddressDeletedCall(getFails, updateFails)
  \/ \E listFails \in BOOLEAN, updateFails \in BOOLEAN : SimIPAMCall(listFails, updateFails)
  \/ \E a \in Addrs : ExternalAddressUpdate(a)
  \/ ExternalAddressDelete

SpecProp == InitProp /\ [][NextProp]_vars

-----------------------------------------------------------------------------
(* Properties of EnsureVIP *)

\* the service the recorded call of EnsureVIP was given
Given == last.service[1]

\* the acting provider may work on the service: right kind, opted in, and no
\* other provider requested
Applicable(service, p) ==
  /\ service.type = ServiceTypeNodePort
  /\ requireAnnotation => Ann(service, AnnNxReqVIP) # ""
  /\ Ann(service, AnnNxVIPProvider) \in {"", p}

\* the call returned (false, false, nil, nil)
Stopped(l) ==
  ~l.panic /\ ~l.ok /\ ~l.needsUpdate /\ l.newservice = <<>> /\ l.err = NilErr

\* s2 is s1 with annotation k set to v and nothing else changed
SameExcept(s1, s2, k, v) ==
  /\ s2.namespace = s1.namespace /\ s2.name = s1.name /\ s2.type = s1.type
  /\ ~s2.annNil
  /\ DOMAIN s2.annotations = (DOMAIN s1.annotations) \cup {k}
  /\ s2.annotations[k] = v
  /\ \A x \in (DOMAIN s1.annotations) \ {k} : s2.annotations[x] = s1.annotations[x]

\* C1 (no-clobber): a call of EnsureVIP on a service whose vip-active-provider is
\* a non-empty value other than the acting provider returns (false, false, nil,
\* nil), whatever the rest of the service and the address are, and submits no
\* address request and no event.
NoClobber ==
  ( /\ last.op = "EnsureVIP"
    /\ Ann(Given, AnnNxVIPActiveProvider) # ""
    /\ Ann(Given, AnnNxVIPActiveProvider) # last.controllerName )
  => ( Stopped(last) /\ last.creates = <<>> /\ last.events = <<>> )

\* C1 happens: a provider has run on a NodePort service that it could otherwise
\* work on, that another provider owns and that carries a stored address
NoClobberSeen ==
  /\ last.op = "EnsureVIP"
  /\ Applicable(Given, last.controllerName)
  /\ Ann(Given, AnnNxVIPActiveProvider) \in Providers \ {last.controllerName}
  /\ Ann(Given, AnnNxAssignedVIP) # ""
  /\ Key \in DOMAIN addresses
  /\ Stopped(last)

\* C2 (claim before act): a call of EnsureVIP on an applicable service whose
\* vip-active-provider is unset returns (false, true, copy, nil), the copy being
\* the service with vip-active-provider set to the acting provider and nothing
\* else changed; the call looks up no address, requests none and emits no event.
ClaimBeforeAct ==
  ( /\ last.op = "EnsureVIP"
    /\ Applicable(Given, last.controllerName)
    /\ Ann(Given, AnnNxVIPActiveProvider) = "" )
  => ( /\ ~last.panic /\ ~last.ok /\ last.needsUpdate /\ last.err = NilErr
       /\ last.newservice # <<>>
       /\ SameExcept(Given, last.newservice[1], AnnNxVIPActiveProvider, last.controllerName)
       /\ Ann(last.newservice[1], AnnNxAssignedVIP) = Ann(Given, AnnNxAssignedVIP)
       /\ last.lookups = 0 /\ last.creates = <<>> /\ last.events = <<>> )

\* C2 happens: a service with no annotation map at all has been claimed while an
\* address object with a resolved status address exists
ClaimBeforeActSeen ==
  /\ last.op = "EnsureVIP"
  /\ Given.annNil
  /\ last.needsUpdate
  /\ last.newservice # <<>>
  /\ Ann(last.newservice[1], AnnNxVIPActiveProvider) = last.controllerName
  /\ Key \in DOMAIN addresses
  /\ addresses[Key].status # ""

\* the recorded call of EnsureVIP was made by the provider that owns the service
ByOwner ==
  /\ last.op = "EnsureVIP"
  /\ Applicable(Given, last.controllerName)
  /\ Ann(Given, AnnNxVIPActiveProvider) = last.controllerName

\* C4 (ok means a usable VIP): whenever EnsureVIP returns ok = true, the returned
\* service carries a non-empty assigned-vip equal to the status address of the
\* address object looked up in that call.
OkMeansValidVIP ==
  ( last.op = "EnsureVIP" /\ last.ok )
  => ( /\ last.newservice # <<>>
       /\ Ann(last.newservice[1], AnnNxAssignedVIP) # ""
       /\ last.lookup.addr # <<>>
       /\ Ann(last.newservice[1], AnnNxAssignedVIP) = last.lookup.addr[1].status )

\* C5 (address change): a call by the owner on a service with a stored assigned-vip,
\* the address object existing with a different status address, returns
\* (true, true, copy) with the copy's assigned-vip the new status address.
AddressChangeStored ==
  ( /\ ByOwner
    /\ Ann(Given, AnnNxAssignedVIP) # ""
    /\ last.lookup.addr # <<>>
    /\ last.lookup.addr[1].status # Ann(Given, AnnNxAssignedVIP) )
  => ( /\ ~last.panic /\ last.ok /\ last.needsUpdate
       /\ last.newservice # <<>>
       /\ Ann(last.newservice[1], AnnNxAssignedVIP) = last.lookup.addr[1].status )

\* C7 (lookup error): a call by the owner whose address lookup fails with an error
\* other than not-found returns that failure: a non-nil error with (false, false,
\* nil), no address request, no event, and no use of the missing address object.
LookupErrorReturned ==
  ( ByOwner /\ last.lookup.err = ErrOther )
  => ( /\ ~last.panic
       /\ last.err # NilErr
       /\ ~last.ok /\ ~last.needsUpdate /\ last.newservice = <<>>
       /\ last.creates = <<>> /\ last.events = <<>> )

\* the call summarised in c was made on a service with a stored assigned-vip and
\* its address lookup reported not-found
LostAllocation(c) ==
  /\ c.service # <<>>
  /\ Ann(c.service[1], AnnNxAssignedVIP) # ""
  /\ c.lookup.err = ErrNotFound

\* C6 (lost allocation): a call by the owner on a service with a stored
\* assigned-vip whose address lookup reports not-found returns (false, true, copy,
\* nil) with the copy's assigned-vip empty and requests no address; the call that
\* follows it on the persisted copy, the address still absent, submits exactly one
\* address request and returns ok = false, needsUpdate = false.
LostAllocationRestarts ==
  /\ ( ByOwner /\ LostAllocation(last) )
     => ( /\ ~last.panic /\ ~last.ok /\ last.needsUpdate /\ last.err = NilErr
          /\ last.newservice # <<>>
          /\ SameExcept(Given, last.newservice[1], AnnNxAssignedVIP, "")
          /\ last.creates = <<>> )
  /\ ( /\ ByOwner
       /\ last.prev # <<>>
       /\ LostAllocation(last.prev[1])
       /\ last.lookup.err = ErrNotFound )
     => ( /\ ~last.panic /\ ~last.ok /\ ~last.needsUpdate
          /\ Len(last.creates) = 1
          /\ ObjKey(last.creates[1]) = ObjKey(Given) )

\* C6 happens: the owner has cleared a lost allocation, the copy was persisted, and
\* its next call has requested an address, which now exists
LostAllocationRestartsSeen ==
  /\ ByOwner
  /\ last.prev # <<>>
  /\ LostAllocation(last.prev[1])
  /\ last.prev[1].needsUpdate
  /\ Ann(Given, AnnNxAssignedVIP) = ""
  /\ Len(last.creates) = 1
  /\ Key \in DOMAIN addresses
  /\ addresses[Key].status = ""

\* the call summarised in c claimed the service
WasClaim(c) ==
  c.needsUpdate /\ Ann(c.service[1], AnnNxVIPActiveProvider) = ""

\* the call summarised in c found the address object with a non-empty status
\* address other than the stored assigned-vip
WasAddressChange(c) ==
  /\ c.needsUpdate
  /\ Ann(c.service[1], AnnNxAssignedVIP) # ""
  /\ c.lookup.addr # <<>>
  /\ c.lookup.addr[1].status \notin {"", Ann(c.service[1], AnnNxAssignedVIP)}

\* C8 (idempotence) as stated: a call of EnsureVIP that follows another one, its
\* input being what that call returned and the address untouched from outside,
\* returns needsUpdate = false.
Idempotence ==
  ( last.op = "EnsureVIP" /\ last.prev # <<>> ) => ~last.needsUpdate

\* C8 as amended: the same, for a first call that neither claimed the service nor
\* found the status address changed to another non-empty address. (After a claim
\* the next call may store or clear assigned-vip; after a change the code has
\* written an empty assigned-vip and the next call stores the address.)
IdempotenceAfterFirstWrite ==
  ( /\ last.op = "EnsureVIP"
    /\ last.prev # <<>>
    /\ ~WasClaim(last.prev[1])
    /\ ~WasAddressChange(last.prev[1]) )
  => ~last.needsUpdate

\* C8 happens: the owner stored a resolved address on a service that had none, the
\* copy was persisted, and the owner's next call confirmed it without a change
IdempotenceSeen ==
  /\ ByOwner
  /\ last.prev # <<>>
  /\ last.prev[1].ok /\ last.prev[1].needsUpdate
  /\ Ann(last.prev[1].service[1], AnnNxAssignedVIP) = ""
  /\ last.ok /\ ~last.needsUpdate
  /\ Ann(Given, AnnNxAssignedVIP) # ""

\* the recorded call stored the address object's resolved status address
StoredResolved ==
  /\ last.op = "EnsureVIP"
  /\ last.ok /\ last.needsUpdate
  /\ Key \in DOMAIN addresses
  /\ addresses[Key].status # ""
  /\ Ann(last.newservice[1], AnnNxAssignedVIP) = addresses[Key].status

\* the recorded call confirmed the stored address without a change
Converged ==
  /\ last.op = "EnsureVIP"
  /\ last.ok /\ ~last.needsUpdate
  /\ Key \in DOMAIN addresses
  /\ addresses[Key].status # ""
  /\ Ann(services[Key], AnnNxAssignedVIP) = addresses[Key].status

\* claim before request, and resolve before store: an address object exists only
\* for a claimed service, and while it exists the service carries no assigned-vip
\* other than its status address
ConvOrder ==
  Key \in DOMAIN addresses
    => ( /\ Ann(services[Key], AnnNxVIPActiveProvider) = ConvProvider
         /\ Ann(services[Key], AnnNxAssignedVIP) \in {"", addresses[Key].status} )

\* C3 (convergence): from an unclaimed applicable service with no address object,
\* one provider reconciling repeatedly with every mutation persisted, and the IPAM
\* filling in the status address, the address is requested only after the claim
\* and stored only once resolved; eventually a call returns ok = true with
\* assigned-vip the resolved address, and from some point on every call returns
\* ok = true, needsUpdate = false with assigned-vip equal to that address.
Convergence ==
  /\ []ConvOrder
  /\ <>StoredResolved
  /\ <>[]Converged

\* C3 happens: the run has claimed, requested, seen the address resolved, stored
\* it and reached a confirming call
ConvergenceSeen ==
  /\ Converged
  /\ Ann(services[Key], AnnNxVIPActiveProvider) = ConvProvider
  /\ last.prev # <<>>

-----------------------------------------------------------------------------
(* Properties of the address handlers *)

\* the address object the recorded handler call was given
GivenAddress == last.address[1]

\* the number of positions of sequence q that hold x
Count(q, x) == Cardinality({ i \in 1..Len(q) : q[i] = x })

\* the number of owner references of address a that name service nm (kind Service,
\* API version v1)
ServiceOwners(a, nm) ==
  Count(a.ownerReferences, [kind |-> "Service", apiVersion |-> "v1", name |-> nm])

\* C9 (deletion reset): after IpAddressDeleted has run for a deleted address object
\* in namespace N with an owner reference to service S, a service N/S that existed
\* with a non-empty assigned-vip is stored with assigned-vip = "" and is otherwise
\* unchanged, unless the call returned an error; a service N/S with an empty
\* assigned-vip is not written; a missing service is skipped without a write.
DeletionReset ==
  ( /\ last.op = "IpAddressDeleted"
    /\ GivenAddress.namespace = Namespace
    /\ ServiceOwners(GivenAddress, ServiceName) > 0 )
  => ( /\ ( last.service # <<>> /\ Ann(last.service[1], AnnNxAssignedVIP) # "" /\ last.err = NilErr )
            => ( /\ Key \in DOMAIN services
                 /\ SameExcept(last.service[1], services[Key], AnnNxAssignedVIP, "")
                 /\ Ann(services[Key], AnnNxAssignedVIP) = ""
                 /\ \E i \in 1..Len(last.updates) : Stored(last.updates[i]) = services[Key] )
       /\ ( last.service # <<>> /\ Ann(last.service[1], AnnNxAssignedVIP) = "" )
            => last.updates = <<>>
       /\ last.service = <<>> => last.updates = <<>> )

\* (A step that leaves last a fresh record of IpAddressCreatedOrUpdated, quiet and
\* different from before, is a call of the handler.)
\* C10 (address-change propagation): IpAddressCreatedOrUpdated on an address object
\* in namespace N with a non-empty status address hands N/<name> to the queue once
\* for every owner reference of kind Service and API version v1, and nothing else;
\* with an empty status address it hands over nothing; every item handed over is
\* waiting in the queue, and the call changes no service and no address object.
Propagation ==
  /\ [] ( last.op = "IpAddressCreatedOrUpdated"
          => /\ GivenAddress.status = "" => last.adds = <<>>
             /\ GivenAddress.status # ""
                  => /\ \A nm \in {ServiceName, OtherName} :
                          Count(last.adds, GivenAddress.namespace \o "/" \o nm)
                            = ServiceOwners(GivenAddress, nm)
                     /\ Len(last.adds) = ServiceOwners(GivenAddress, ServiceName)
                                           + ServiceOwners(GivenAddress, OtherName)
             /\ \A i \in 1..Len(last.adds) : Count(serviceQueue, last.adds[i]) = 1 )
  /\ [][ ( last'.op = "IpAddressCreatedOrUpdated" /\ last'.quiet /\ last' # last )
           => ( services' = services /\ addresses' = addresses ) ]_vars

\* C10 happens: the handler has run on a resolved address object that carries one
\* owner reference to the service and one it must ignore, and has queued ns1/svc1
PropagationSeen ==
  /\ last.op = "IpAddressCreatedOrUpdated"
  /\ GivenAddress.status # ""
  /\ Len(GivenAddress.ownerReferences) = 2
  /\ ServiceOwners(GivenAddress, ServiceName) = 1
  /\ ServiceOwners(GivenAddress, OtherName) = 0
  /\ last.adds = << "ns1/svc1" >>
  /\ serviceQueue = << "ns1/svc1" >>

-----------------------------------------------------------------------------
(* Gating, copies, single transitions, pending allocations, the result tuple *)

\* C12 (not-applicable gating): a call of EnsureVIP on a service that is not of
\* type NodePort, or that lacks a non-empty req-vip while the opt-in is required,
\* or whose vip-provider is a non-empty value other than the acting provider,
\* returns (false, false, nil, nil), makes no address lookup, submits no address
\* request and no event, and returns no claimed copy.
NotApplicableGating ==
  ( last.op = "EnsureVIP" /\ ~Applicable(Given, last.controllerName) )
  => ( /\ Stopped(last)
       /\ last.lookups = 0
       /\ last.creates = <<>>
       /\ last.events = <<>> )

\* C12 happens: a provider has run on an unclaimed NodePort service that requests
\* another provider, and the call stopped
NotApplicableGatingSeen ==
  /\ last.op = "EnsureVIP"
  /\ Given.type = ServiceTypeNodePort
  /\ Ann(Given, AnnNxVIPProvider) \in Providers \ {last.controllerName}
  /\ Ann(Given, AnnNxVIPActiveProvider) = ""
  /\ Stopped(last)
  /\ last.lookups = 0

\* C13 (copy, never the original): after a call of EnsureVIP or IpAddressDeleted
\* the service object it was given is as it was before the call; a service returned
\* with needsUpdate = true, and every service IpAddressDeleted submits to Update,
\* is a separate object.
CopyNeverOriginal ==
  ( last.op \in {"EnsureVIP", "IpAddressDeleted"} /\ last.service # <<>> )
  => ( /\ last.cachedAfter = last.service
       /\ last.needsUpdate => ( last.newservice # <<>> /\ ~last.newservice[1].cached )
       /\ \A i \in 1..Len(last.updates) : ~last.updates[i].cached )

\* C13 happens: a call returned a changed service, and the service it was given is
\* still as it was
CopyNeverOriginalSeen ==
  /\ last.op = "EnsureVIP"
  /\ last.needsUpdate
  /\ last.newservice # <<>>
  /\ Stored(last.newservice[1]) # Given
  /\ last.cachedAfter = << Given >>

\* the annotations in which services s1 and s2 differ
ChangedAnnotations(s1, s2) ==
  { k \in (DOMAIN s1.annotations) \cup (DOMAIN s2.annotations) :
      \/ (k \in DOMAIN s1.annotations) # (k \in DOMAIN s2.annotations)
      \/ Ann(s1, k) # Ann(s2, k) }

\* the annotations the recorded call changed on the copy it returned
ChangedByCall ==
  IF last.needsUpdate /\ last.newservice # <<>>
    THEN ChangedAnnotations(Given, last.newservice[1]) ELSE {}

\* the transitions the recorded call of EnsureVIP made
Transitions ==
  { t \in {"claim", "request", "store", "clear", "confirm"} :
      \/ t = "claim" /\ AnnNxVIPActiveProvider \in ChangedByCall
      \/ t = "request" /\ last.creates # <<>>
      \/ t = "store" /\ AnnNxAssignedVIP \in ChangedByCall
                     /\ Ann(last.newservice[1], AnnNxAssignedVIP) # ""
      \/ t = "clear" /\ AnnNxAssignedVIP \in ChangedByCall
                     /\ Ann(last.newservice[1], AnnNxAssignedVIP) = ""
      \/ t = "confirm" /\ last.ok /\ ~last.needsUpdate }

\* C14 (at most one transition per call): a call of EnsureVIP makes at most one of
\* claim, request, store, clear and confirm; a call that submits an address
\* request submits one and returns needsUpdate = false and no service; a call that
\* returns needsUpdate = true submits no address request and returns a copy that
\* differs from the given service in exactly one annotation.
OneTransition ==
  last.op = "EnsureVIP"
  => ( /\ Cardinality(Transitions) <= 1
       /\ last.creates # <<>>
            => ( Len(last.creates) = 1 /\ ~last.needsUpdate /\ last.newservice = <<>> )
       /\ last.needsUpdate
            => ( /\ last.creates = <<>>
                 /\ last.newservice # <<>>
                 /\ last.newservice[1].namespace = Given.namespace
                 /\ last.newservice[1].name = Given.name
                 /\ last.newservice[1].type = Given.type
                 /\ Cardinality(ChangedByCall) = 1 ) )

\* C14 happens: the owner stored the resolved address on a service that carries
\* other annotations besides, and that was the call's only transition
OneTransitionSeen ==
  /\ ByOwner
  /\ Transitions = {"store"}
  /\ Ann(Given, AnnNxReqVIP) # ""
  /\ Ann(Given, AnnNxVIPProvider) # ""

\* the call summarised in c found the address object without a status address
\* while the service had no assigned-vip
WasPending(c) ==
  /\ c.service # <<>>
  /\ Ann(c.service[1], AnnNxAssignedVIP) = ""
  /\ c.lookup.addr # <<>>
  /\ c.lookup.addr[1].status = ""

\* C15 (pending allocation): a call by the owner on a service without assigned-vip
\* whose address object exists with an empty status address returns (false, false,
\* nil, nil) and submits no address request and no event; the call, first or
\* repeated, leaves the service store, the address store and the queue as they were.
PendingAllocation ==
  /\ []( ( ByOwner /\ WasPending(last) )
         => ( Stopped(last) /\ last.creates = <<>> /\ last.events = <<>> ) )
  /\ [][ ( /\ last'.op = "EnsureVIP" /\ last'.quiet /\ last'.persisted = "no"
           /\ last'.controllerName = Ann(last'.service[1], AnnNxVIPActiveProvider)
           /\ WasPending(last') )
         => ( services' = services /\ addresses' = addresses
              /\ serviceQueue' = serviceQueue ) ]_vars

\* C15 happens: the owner has called twice in a row while the address object was
\* waiting for its status address, and the address object is still waiting
PendingAllocationSeen ==
  /\ ByOwner
  /\ WasPending(last)
  /\ last.prev # <<>>
  /\ WasPending(last.prev[1])
  /\ Key \in DOMAIN addresses
  /\ addresses[Key].status = ""

\* C20 (decision tuple consistency): a call of EnsureVIP that returns has
\* needsUpdate = true exactly when it returns a service that differs from the one
\* it was given (so with needsUpdate = false the returned service is none or equal
\* to the given one), and whenever it returns an error it returns ok = false,
\* needsUpdate = false and no service.
DecisionTuple ==
  ( last.op = "EnsureVIP" /\ ~last.panic )
  => ( /\ last.needsUpdate <=> ( last.newservice # <<>> /\ Stored(last.newservice[1]) # Given )
       /\ last.err # NilErr
            => ( ~last.ok /\ ~last.needsUpdate /\ last.newservice = <<>> ) )

\* C20 happens: the owner's address request was rejected and the call returned the
\* error
DecisionTupleSeen ==
  /\ ByOwner
  /\ last.creates # <<>>
  /\ last.err # NilErr
  /\ ~last.ok /\ ~last.needsUpdate

-----------------------------------------------------------------------------
(* The owner reconciling through an address lister that lags behind the store *)

\* a service ConvProvider owns and may work on, with or without an assigned-vip
OwnedServices ==
  { s \in ServiceInputs :
      /\ s.type = ServiceTypeNodePort
      /\ Ann(s, AnnNxVIPProvider) \in {"", ConvProvider}
      /\ Ann(s, AnnNxVIPActiveProvider) = ConvProvider }

\* the address store in any state with respect to the service's address object
AddressStores == {EmptyStore} \cup { StorePut(EmptyStore, a) : a \in RequestedAddresses }

\* The lister starts with any earlier state of the address store: the address
\* object missing, waiting, or with an earlier status address.
InitStale ==
  /\ requireAnnotation \in BOOLEAN
  /\ services \in { StorePut(EmptyStore, s) :
                      s \in { f \in OwnedServices :
                                requireAnnotation => Ann(f, AnnNxReqVIP) # "" } }
  /\ addresses \in AddressStores
  /\ addressCache \in { <<c>> : c \in AddressStores }
  /\ serviceQueue = <<>>
  /\ deleted = <<>>
  /\ last = NoCall
  /\ calls = NoCalls

\* The address lister catches up with the address store.
ListerSync ==
  /\ addressCache # <<>>
  /\ addressCache # << addresses >>
  /\ addressCache' = << addresses >>
  /\ last' = [last EXCEPT !.quiet = FALSE]
  /\ UNCHANGED <<services, addresses, serviceQueue, deleted, requireAnnotation, calls>>

NextStale ==
  \/ \E createFails \in BOOLEAN : ReconcilePass(ConvProvider, createFails)
  \/ \E listFails \in BOOLEAN, updateFails \in BOOLEAN : SimIPAMCall(listFails, updateFails)
  \/ ListerSync

\* The controller keeps reconciling, the IPAM keeps running and the lister keeps
\* catching up; a Create, List or Update that is retried is eventually accepted.
SpecStale ==
  /\ InitStale
  /\ [][NextStale]_vars
  /\ WF_vars(ReconcilePass(ConvProvider, FALSE))
  /\ WF_vars(SimIPAMCall(FALSE, FALSE))
  /\ WF_vars(ListerSync)

\* a step that is a call of EnsureVIP which submitted an address request
RequestStep ==
  /\ last'.op = "EnsureVIP"
  /\ last'.quiet
  /\ last'.creates # <<>>

\* C17 (convergence under stale address views): with the owner reconciling
\* through a lister that lags behind the address store but catches up, every
\* returned copy persisted and nothing else changing the address, the controller
\* eventually reaches and stays in the state where EnsureVIP returns ok = true,
\* needsUpdate = false and assigned-vip is the address object's current status
\* address; and an address request submitted while the address object exists
\* never replaces it, so there is never a second address object for the key.
StaleConvergence ==
  /\ <>[]Converged
  /\ [][ ( RequestStep /\ Key \in DOMAIN addresses ) => addresses' = addresses ]_vars

\* C17 happens: the lister, which had been lagging, has caught up with the address
\* store, the owner has stored the status address and its next call confirmed it
StaleConvergenceSeen ==
  /\ Converged
  /\ addressCache = << addresses >>
  /\ last.prev # <<>>
  /\ last.prev[1].ok /\ last.prev[1].needsUpdate

\* C18 (address request): a call of EnsureVIP that requests an address submits
\* exactly one address object, with the service's namespace and name, an empty
\* status address and the single owner reference {Service, v1, name}; when the
\* Create is accepted that object is stored; when it is rejected, as when the
\* address object already exists, the call returns a non-nil error with ok = false,
\* needsUpdate = false and no service, and the address store is as it was.
AddressRequest ==
  /\ []( ( last.op = "EnsureVIP" /\ last.creates # <<>> )
         => ( /\ Len(last.creates) = 1
              /\ last.creates[1].namespace = Given.namespace
              /\ last.creates[1].name = Given.name
              /\ last.creates[1].status = ""
              /\ last.creates[1].ownerReferences
                   = << [kind |-> "Service", apiVersion |-> "v1", name |-> Given.name] >>
              /\ ~last.ok /\ ~last.needsUpdate /\ last.newservice = <<>>
              /\ ( last.quiet /\ last.err = NilErr )
                   => ( Key \in DOMAIN addresses /\ addresses[Key] = last.creates[1] ) ) )
  /\ [][ ( RequestStep /\ Key \in DOMAIN addresses )
         => ( last'.err # NilErr /\ addresses' = addresses ) ]_vars
  /\ [][ ( RequestStep /\ last'.err # NilErr ) => addresses' = addresses ]_vars

\* C18 happens: the owner requested an address while the lister did not yet show
\* the address object that exists with a status address; the request was rejected
\* and the call returned the error
AddressRequestSeen ==
  /\ ByOwner
  /\ last.creates # <<>>
  /\ last.err # NilErr
  /\ last.quiet
  /\ Key \in DOMAIN addresses
  /\ addresses[Key].status # ""

-----------------------------------------------------------------------------
(* Several controllers working on the same service at the same time *)

\* a NodePort service no controller has claimed yet and any controller may work
\* on: it may carry an assigned-vip left over from an earlier allocation, or have
\* no annotations at all
RaceServices ==
  { s \in ServiceInputs :
      /\ s.type = ServiceTypeNodePort
      /\ (DOMAIN s.annotations) \subseteq {AnnNxAssignedVIP} }

InitRace ==
  /\ requireAnnotation = FALSE
  /\ services \in { StorePut(EmptyStore, s) : s \in RaceServices }
  /\ addresses \in AddressStores
  /\ addressCache = <<>>
  /\ serviceQueue = <<>>
  /\ deleted = <<>>
  /\ last = NoCall
  /\ calls = NoCalls

\* controller p has called EnsureVIP and has not yet submitted the update it owes
UpdateDue(p) == calls[p].op = "EnsureVIP" /\ calls[p].needsUpdate /\ calls[p].persisted = "no"

\* what a controller keeps of its call of EnsureVIP on service with result r
DueRecord(p, service, r) ==
  [ NoCall EXCEPT !.op = "EnsureVIP", !.controllerName = p, !.service = <<service>>,
                  !.panic = r.panic, !.ok = r.ok, !.needsUpdate = r.needsUpdate,
                  !.newservice = r.newservice, !.err = r.err, !.creates = r.creates ]

\* Controller p, with no update due, takes the service from the store and calls
\* EnsureVIP; the result waits in calls[p] for the controller's update.
ControllerCall(p, createFails) ==
  /\ ~UpdateDue(p)
  /\ Key \in DOMAIN services
  /\ LET service == services[Key]
         lookup == AddressLookup(ListerView, service, FALSE)
         createErr == CreateAnswer(addresses, NewIpAddress(service), createFails)
         r == EnsureVIP(service, lookup, p, requireAnnotation, createErr)
     IN  /\ addresses' = AfterCreates(addresses, r.creates, createErr)
         /\ last' = DueRecord(p, service, r)
         /\ calls' = [calls EXCEPT ![p] = last']
  /\ UNCHANGED <<services, serviceQueue, deleted, requireAnnotation, addressCache>>

\* Controller p submits the update it owes. The store accepts it only if the stored
\* service is still the one the call was given (optimistic concurrency); otherwise
\* the update is refused and dropped.
ControllerUpdate(p) ==
  /\ UpdateDue(p)
  /\ IF Key \in DOMAIN services /\ services[Key] = calls[p].service[1]
       THEN /\ services' = StorePut(services, Stored(calls[p].newservice[1]))
            /\ calls' = [calls EXCEPT ![p].persisted = "yes"]
       ELSE /\ services' = services
            /\ calls' = [calls EXCEPT ![p].persisted = "conflict"]
  /\ last' = calls'[p]
  /\ UNCHANGED <<addresses, serviceQueue, deleted, requireAnnotation, addressCache>>

NextRace ==
  \/ \E p \in Providers, createFails \in BOOLEAN : ControllerCall(p, createFails)
  \/ \E p \in Providers : ControllerUpdate(p)
  \/ IpAddressCreatedOrUpdatedCall
  \/ \E p \in Providers, getFails \in BOOLEAN, updateFails \in BOOLEAN :
       IpAddressDeletedBy(p, getFails, updateFails)
  \/ \E listFails \in BOOLEAN, updateFails \in BOOLEAN : SimIPAMCall(listFails, updateFails)
  \/ \E a \in Addrs : ExternalAddressUpdate(a)
  \/ ExternalAddressDelete

SpecRace == InitRace /\ [][NextRace]_vars

\* the stored service's vip-active-provider, "" while the service is unclaimed
ActiveProvider == IF Key \in DOMAIN services THEN Ann(services[Key], AnnNxVIPActiveProvider) ELSE ""

\* a step that changes the stored vip-active-provider or assigned-vip
OwnershipWrite ==
  /\ Key \in DOMAIN services
  /\ Key \in DOMAIN services'
  /\ ChangedAnnotations(services[Key], services'[Key])
       \cap {AnnNxVIPActiveProvider, AnnNxAssignedVIP} # {}

ClaimStability ==
  [][ ActiveProvider # "" => ActiveProvider' = ActiveProvider ]_vars

\* C19 happens: a service claimed by one controller has since been worked on by
\* both controllers and the handlers, the address object was deleted, and the
\* owner has cleared the assigned-vip it had stored
ClaimStabilitySeen ==
  \E p \in Providers, q \in Providers :
    /\ p # q
    /\ ActiveProvider = p
    /\ calls[p].op = "EnsureVIP" /\ calls[p].persisted = "yes"
    /\ Ann(calls[p].service[1], AnnNxAssignedVIP) # ""
    /\ Ann(services[Key], AnnNxAssignedVIP) = ""
    /\ calls[q].op = "EnsureVIP" /\ Ann(calls[q].service[1], AnnNxVIPActiveProvider) = p
    /\ last.op = "IpAddressDeleted"

\* controllers p and q have both claimed the same unclaimed service
BothClaimed(p, q) ==
  /\ p # q
  /\ calls[p].op = "EnsureVIP" /\ WasClaim(calls[p])
  /\ calls[q].op = "EnsureVIP" /\ WasClaim(calls[q])
  /\ calls[p].service = calls[q].service

\* C16 (racing claims): when two controllers claim the same unclaimed service from
\* the same view, the update of exactly one of them is accepted; on a claimed
\* service only the controller named in vip-active-provider submits an address
\* request or changes assigned-vip; and every call of another controller on a
\* claimed service returns ok = false, needsUpdate = false.
RacingClaims ==
  /\ []( \A p \in Providers, q \in Providers :
           BothClaimed(p, q)
           => ( /\ ~( calls[p].persisted = "yes" /\ calls[q].persisted = "yes" )
                /\ ( calls[p].persisted # "no" /\ calls[q].persisted # "no" )
                     => ( calls[p].persisted = "yes" \/ calls[q].persisted = "yes" ) ) )
  /\ []( \A q \in Providers :
           ( /\ calls[q].op = "EnsureVIP"
             /\ Ann(calls[q].service[1], AnnNxVIPActiveProvider) \notin {"", q} )
           => ( Stopped(calls[q]) /\ calls[q].creates = <<>> ) )
  /\ [][ ( ActiveProvider # "" /\ RequestStep ) => last'.controllerName = ActiveProvider ]_vars
  /\ [][ ( /\ ActiveProvider # ""
           /\ last'.op = "EnsureVIP"
           /\ Ann(services'[Key], AnnNxAssignedVIP) # Ann(services[Key], AnnNxAssignedVIP) )
         => last'.controllerName = ActiveProvider ]_vars

\* C16 happens: both controllers claimed the service from the same view, one
\* update was accepted and the other refused
RacingClaimsSeen ==
  \E p \in Providers, q \in Providers :
    /\ BothClaimed(p, q)
    /\ calls[p].persisted = "yes"
    /\ calls[q].persisted = "conflict"
    /\ ActiveProvider = p

====
